---- MODULE Spec2Model ----
(***************************************************************************)
(* Model of the structured-response glue of the GenAI_session12 scripts:   *)
(*   5.chat_demo.py       extract_json, require_terminate, the onboarding  *)
(*                        phases phase_personal_info / phase_issue         *)
(*   7.stock_analysis.py  _strip_fences and the parse step of run_workflow *)
(*   6.research_agent.py  the ResearchReport schema                        *)
(*                                                                         *)
(* A text is a sequence of lexemes.  A lexeme is a run of characters that  *)
(* the code never splits: a brace, a bracket, a colon, a comma, one        *)
(* whitespace character, a digit, a word, a complete JSON string literal   *)
(* (quotes included) or a Markdown fence (three backticks, written Fence). *)
(* No string literal of the alphabet contains a brace, a backtick or the   *)
(* marker word, so the regular expressions and the substring test of the   *)
(* code see exactly the lexeme boundaries.                                 *)
(***************************************************************************)
EXTENDS Integers, Sequences, FiniteSets, TLC

VARIABLES
    prog,       \* which script the behaviour is a run of
    pc,         \* position in that script
    parts,      \* how the input text was composed: [pre, body, post]
    raw,        \* the raw model output handed to the extraction code
    data,       \* 5.chat_demo.py: the value extract_json returned (data of a phase)
    raised,     \* an exception escaped the extraction code
    text1,      \* 7.stock_analysis.py: text1 of run_workflow
    data_json,  \* 7.stock_analysis.py: data_json of run_workflow
    span,       \* the substring last handed to json.loads by a regex match
    phase,      \* 5.chat_demo.py: the phase function main() is in
    reply,      \* reply of the phase: last_text(res)
    task,       \* the task of the last agent run: "plain" or "reminder"
    runs,       \* agent runs made by the current invocation of the phase
    phase_runs, \* agent runs made by all invocations of the phase so far
    calls,      \* invocations of the phase function so far (the recursion depth)
    restarts,   \* times the phase's check of data failed so far
    failed_on,  \* the keys whose test made the phase's check fail, in test order
    result,     \* what the phase function returned
    profile,    \* main(): profile, the result of phase_personal_info
    output,     \* 6.research_agent.py: the mapping validated as a ResearchReport
    errors,     \* the errors of the ValidationError raised, in field order
    report,     \* the ResearchReport built, None when validation failed
    note,       \* 5.chat_demo.py: the string phase_engagement returned
    attempt,    \* 6.research_agent.py: attempt of tavily_search's loop
    posts,      \* the HTTP requests tavily_search has made
    slept,      \* the waits of tavily_search, in tenths of a second, in order
    responses,  \* what each request of tavily_search met, in order
    out,        \* what tavily_search returned
    exc,        \* the exception that left tavily_search, "none" if none did
    tool_result,   \* 7.stock_analysis.py: what run_workflow's own call of fetch_stock_data gave
    tool_calls,    \* the calls of fetch_stock_data run_workflow made itself
    writer_input,  \* the mapping in the task of the writer agent
    report_md,     \* the second component of what run_workflow returned
    returned       \* the first component of what run_workflow returned

xvars == <<parts, raw, text1, data_json, span>>
pvars == <<phase, reply, task, runs, phase_runs, calls, restarts, failed_on, result, profile>>
rvars == <<output, errors, report>>
svars == <<attempt, posts, slept, responses, out, exc>>
wvars == <<tool_result, tool_calls, writer_input, report_md, returned>>
vars == <<prog, pc, data, raised, xvars, pvars, rvars, note, svars, wvars>>

---------------------------------------------------------------------------
(* Lexemes *)

Fence == "<fence>"
QName == "\"name\""
QLocation == "\"location\""
QAnn == "\"Ann\""
QEmpty == "\"\""
QProduct == "\"product\""
QIssue == "\"issue\""
Terminate == "TERMINATE"

Whitespace == {" ", "\n"}
Digits == {"0", "1"}
Words == {"json", "null", Terminate, "terminate"}
StrLex == {QName, QLocation, QAnn, QEmpty, QProduct, QIssue}
Punct == {"{", "}", "[", "]", ":", ","}

\* [a-zA-Z0-9]
IsAlnum(c) == c \in Digits \cup Words
\* \s, and what str.strip() removes
IsWs(c) == c \in Whitespace

---------------------------------------------------------------------------
(* Python values *)

EmptyMap == [k \in {} |-> 0]

None == [kind |-> "None", atom |-> "", n |-> 0, items |-> <<>>, members |-> EmptyMap]
Str(a) == [kind |-> "str", atom |-> a, n |-> 0, items |-> <<>>, members |-> EmptyMap]
Num(v) == [kind |-> "num", atom |-> "", n |-> v, items |-> <<>>, members |-> EmptyMap]
Arr(xs) == [kind |-> "list", atom |-> "", n |-> 0, items |-> xs, members |-> EmptyMap]
Dict(m) == [kind |-> "dict", atom |-> "", n |-> 0, items |-> <<>>, members |-> m]
\* a float, held in tenths: Float(15) is 1.5
Float(t) == [kind |-> "float", atom |-> "", n |-> t, items |-> <<>>, members |-> EmptyMap]

\* bool(v): None, "", 0, [] and {} are falsy
Truthy(v) ==
    CASE v.kind = "None" -> FALSE
      [] v.kind = "str" -> v.atom # QEmpty
      [] v.kind = "num" -> v.n # 0
      [] v.kind = "float" -> v.n # 0
      [] v.kind = "list" -> v.items # <<>>
      [] v.kind = "dict" -> DOMAIN v.members # {}
      [] OTHER -> FALSE

\* isinstance(v, dict)
IsDict(v) == v.kind = "dict"

\* d.get(key) of a dict d
Get(d, key) == IF key \in DOMAIN d.members THEN d.members[key] ELSE None

---------------------------------------------------------------------------
(* json.loads *)

Fail == [ok |-> FALSE, val |-> None, pos |-> 0]
Ok(v, p) == [ok |-> TRUE, val |-> v, pos |-> p]

RECURSIVE SkipWs(_, _)
SkipWs(s, i) == IF i <= Len(s) /\ IsWs(s[i]) THEN SkipWs(s, i + 1) ELSE i

RECURSIVE DigitsEnd(_, _)
DigitsEnd(s, i) == IF i <= Len(s) /\ s[i] \in Digits THEN DigitsEnd(s, i + 1) ELSE i

DigitVal(c) == IF c = "1" THEN 1 ELSE 0

RECURSIVE NumVal(_, _, _)
NumVal(s, i, j) == IF j < i THEN 0 ELSE 10 * NumVal(s, i, j - 1) + DigitVal(s[j])

\* NUMBER_RE: 0 | [1-9][0-9]*
ParseNumber(s, i) ==
    IF s[i] = "0" THEN Ok(Num(0), i + 1)
    ELSE LET j == DigitsEnd(s, i) IN Ok(Num(NumVal(s, i, j - 1)), j)

RECURSIVE ParseValue(_, _), ParseMembers(_, _, _), ParseElements(_, _, _)

\* JSONObject, from the key at s[j]
ParseMembers(s, j, acc) ==
    LET k1 == SkipWs(s, j + 1) IN
    IF k1 > Len(s) \/ s[k1] # ":" THEN Fail
    ELSE LET v == ParseValue(s, SkipWs(s, k1 + 1)) IN
         IF ~v.ok THEN Fail
         ELSE LET acc2 == [x \in DOMAIN acc \cup {s[j]} |->
                               IF x = s[j] THEN v.val ELSE acc[x]]
                  k2 == SkipWs(s, v.pos)
              IN  IF k2 > Len(s) THEN Fail
                  ELSE IF s[k2] = "}" THEN Ok(Dict(acc2), k2 + 1)
                  ELSE IF s[k2] # "," THEN Fail
                  ELSE LET k3 == SkipWs(s, k2 + 1) IN
                       IF k3 > Len(s) \/ s[k3] \notin StrLex THEN Fail
                       ELSE ParseMembers(s, k3, acc2)

\* JSONArray, from the element at s[j]
ParseElements(s, j, acc) ==
    LET v == ParseValue(s, j) IN
    IF ~v.ok THEN Fail
    ELSE LET k2 == SkipWs(s, v.pos) IN
         IF k2 > Len(s) THEN Fail
         ELSE IF s[k2] = "]" THEN Ok(Arr(Append(acc, v.val)), k2 + 1)
         ELSE IF s[k2] # "," THEN Fail
         ELSE ParseElements(s, SkipWs(s, k2 + 1), Append(acc, v.val))

\* scan_once
ParseValue(s, i) ==
    IF i > Len(s) THEN Fail
    ELSE CASE s[i] \in StrLex -> Ok(Str(s[i]), i + 1)
           [] s[i] = "{" ->
                LET j == SkipWs(s, i + 1) IN
                IF j > Len(s) THEN Fail
                ELSE IF s[j] = "}" THEN Ok(Dict(EmptyMap), j + 1)
                ELSE IF s[j] \notin StrLex THEN Fail
                ELSE ParseMembers(s, j, EmptyMap)
           [] s[i] = "[" ->
                LET j == SkipWs(s, i + 1) IN
                IF j > Len(s) THEN Fail
                ELSE IF s[j] = "]" THEN Ok(Arr(<<>>), j + 1)
                ELSE ParseElements(s, j, <<>>)
           [] s[i] = "null" -> Ok(None, i + 1)
           [] s[i] \in Digits -> ParseNumber(s, i)
           [] OTHER -> Fail

\* json.loads(s): ok = FALSE stands for the JSONDecodeError it raises
json_loads(s) ==
    LET v == ParseValue(s, SkipWs(s, 1)) IN
    IF ~v.ok THEN Fail
    ELSE IF SkipWs(s, v.pos) # Len(s) + 1 THEN Fail
    ELSE v

---------------------------------------------------------------------------
(* 5.chat_demo.py: extract_json *)

Min(S) == CHOOSE x \in S : \A y \in S : x <= y
Max(S) == CHOOSE x \in S : \A y \in S : x >= y

NoMatch == [found |-> FALSE, group0 |-> <<>>]

\* mutant: the lazy pattern r"\{.*?\}", which ends at the first "}"
JSON_PATTERN_search_lazy(s) ==
    LET opens == {i \in 1..Len(s) : s[i] = "{"} IN
    IF opens = {} THEN NoMatch
    ELSE LET first == Min(opens)
             closes == {j \in first + 1..Len(s) : s[j] = "}"}
         IN  IF closes = {} THEN NoMatch
             ELSE [found |-> TRUE, group0 |-> SubSeq(s, first, Min(closes))]

\* mutant: the pattern compiled without re.S, whose "." stops at a newline
JSON_PATTERN_search_nodotall(s) ==
    LET SameLine(i, j) == \A k \in i + 1..j - 1 : s[k] # "\n"
        starts == {i \in 1..Len(s) :
                     s[i] = "{" /\ \E j \in i + 1..Len(s) : s[j] = "}" /\ SameLine(i, j)}
    IN  IF starts = {} THEN NoMatch
        ELSE LET first == Min(starts)
                 last == Max({j \in first + 1..Len(s) : s[j] = "}" /\ SameLine(first, j)})
             IN  [found |-> TRUE, group0 |-> SubSeq(s, first, last)]

\* re.compile(r"\{.*\}", re.S).search(s): from the first "{" to the last "}"
\* after it, newlines included; no match without such a pair
JSON_PATTERN_search(s) ==
    LET opens == {i \in 1..Len(s) : s[i] = "{"} IN
    IF opens = {} THEN NoMatch
    ELSE LET first == Min(opens)
             closes == {j \in first + 1..Len(s) : s[j] = "}"}
         IN  IF closes = {} THEN NoMatch
             ELSE [found |-> TRUE, group0 |-> SubSeq(s, first, Max(closes))]

\* mutant: except Exception: return {}
TryLoadsPartial(t) ==
    LET r == json_loads(t) IN
    IF r.ok THEN [value |-> r.val, raised |-> FALSE]
    ELSE [value |-> Dict(EmptyMap), raised |-> FALSE]

\* mutant: json.loads called outside any try
TryLoadsRaise(t) ==
    LET r == json_loads(t) IN
    IF r.ok THEN [value |-> r.val, raised |-> FALSE]
    ELSE [value |-> None, raised |-> TRUE]

\* try: return json.loads(t)  except Exception: return None
TryLoads(t) ==
    LET r == json_loads(t) IN
    IF r.ok THEN [value |-> r.val, raised |-> FALSE]
    ELSE [value |-> None, raised |-> FALSE]

\* mutant: {} instead of None when the pattern does not match
extract_json_emptydict(payload) ==
    IF payload = <<>> THEN [value |-> None, raised |-> FALSE]
    ELSE LET m == JSON_PATTERN_search(payload) IN
         IF ~m.found THEN [value |-> Dict(EmptyMap), raised |-> FALSE]
         ELSE TryLoads(m.group0)

extract_json(payload) ==
    IF payload = <<>> THEN [value |-> None, raised |-> FALSE]
    ELSE LET m == JSON_PATTERN_search(payload) IN
         IF ~m.found THEN [value |-> None, raised |-> FALSE]
         ELSE TryLoads(m.group0)

---------------------------------------------------------------------------
(* 7.stock_analysis.py: _strip_fences *)

RECURSIVE LStrip(_), RStrip(_), DropAlnum(_), RStripFence(_)
LStrip(s) == IF s # <<>> /\ IsWs(Head(s)) THEN LStrip(Tail(s)) ELSE s
RStrip(s) ==
    IF s # <<>> /\ IsWs(s[Len(s)]) THEN RStrip(SubSeq(s, 1, Len(s) - 1)) ELSE s
\* s.strip()
Strip(s) == LStrip(RStrip(s))
\* [a-zA-Z0-9]* at the head of s
DropAlnum(s) == IF s # <<>> /\ IsAlnum(Head(s)) THEN DropAlnum(Tail(s)) ELSE s
\* s.rstrip("`")
RStripFence(s) ==
    IF s # <<>> /\ s[Len(s)] = Fence THEN RStripFence(SubSeq(s, 1, Len(s) - 1)) ELSE s

RECURSIVE DropLine(_)
DropLine(s) == IF s = <<>> THEN s ELSE IF Head(s) = "\n" THEN Tail(s) ELSE DropLine(Tail(s))

\* mutant: the opening fence dropped with the whole of its line
_strip_fences_line(s0) ==
    LET s == Strip(s0) IN
    IF s # <<>> /\ Head(s) = Fence
    THEN Strip(RStripFence(DropLine(Tail(s))))
    ELSE s

_strip_fences(s0) ==
    LET s == Strip(s0) IN
    IF s # <<>> /\ Head(s) = Fence
    THEN Strip(RStripFence(LStrip(DropAlnum(Tail(s)))))
    ELSE s

---------------------------------------------------------------------------
(* Input texts *)

\* longest free-form text, in lexemes
MaxText == 3
\* most lexemes of prose around an embedded body, before and after together
MaxProse == 2

SeqsUpTo(S, n) == UNION {[1..k -> S] : k \in 0..n}

\* {}
ObjEmpty == <<"{", "}">>
\* {"name":"Ann"}
ObjOne == <<"{", QName, ":", QAnn, "}">>
\* {"name":"Ann","location":"Ann"}
ObjTwo == <<"{", QName, ":", QAnn, ",", QLocation, ":", QAnn, "}">>
\* {"name":{"location":"Ann"}}
ObjNested == <<"{", QName, ":", "{", QLocation, ":", QAnn, "}", "}">>
\* {\n"name": 1}
ObjSpaced == <<"{", "\n", QName, ":", " ", "1", "}">>
\* {"name":[1,{}]}
ObjList == <<"{", QName, ":", "[", "1", ",", "{", "}", "]", "}">>
\* {"name":null,"name":10}
ObjDup == <<"{", QName, ":", "null", ",", QName, ":", "1", "0", "}">>

ValidObjs == {ObjEmpty, ObjOne, ObjTwo, ObjNested, ObjSpaced, ObjList, ObjDup}

\* brace-delimited texts that are not JSON, and JSON texts that are no object
JunkBodies ==
    { <<"{", QName, "}">>,
      <<"{", QName, ":", "}">>,
      <<"{", QName, ":", QAnn, ",", "}">>,
      <<"{", QName, ":", "0", "1", "}">>,
      <<"{", "json", "}">>,
      <<"{", QName, ":", "[", "1", ",", "]", "}">>,
      <<"[", "1", "]">>,
      <<QAnn>>,
      <<"null">>,
      <<>> }

ProseLex == {"json", "\n", "{", "}", "[", "]"}
FreeLex == {"{", "}", "[", "]", QName, ":", ",", "1", "\n", Fence, "json"}

Input(f, pre, body, post, a, b) ==
    [fam |-> f, pre |-> pre, body |-> body, post |-> post, a |-> a, b |-> b]

\* prose-before + body + prose-after
ProsePairs ==
    UNION { { <<SubSeq(t, 1, i), SubSeq(t, i + 1, Len(t))>> : i \in 0..Len(t) } :
            t \in SeqsUpTo(ProseLex, MaxProse) }

ProseInputs ==
    { Input("prose", pp[1], body, pp[2], <<>>, <<>>) :
        pp \in ProsePairs, body \in ValidObjs \cup JunkBodies }

\* a body wrapped in Markdown fences, with and without a language tag,
\* whitespace and a closing fence
FencedInputs ==
    { Input("fenced", lead \o <<Fence>> \o tag \o gap, body, gap2 \o close \o trail,
            <<>>, <<>>) :
        lead \in {<<>>, <<"\n">>}, tag \in {<<>>, <<"json">>},
        gap \in {<<>>, <<"\n">>, <<" ", "\n">>},
        gap2 \in {<<>>, <<"\n">>}, close \in {<<>>, <<Fence>>},
        trail \in {<<>>, <<"\n">>},
        body \in ValidObjs \cup JunkBodies }

\* any text
FreeInputs ==
    { Input("free", <<>>, t, <<>>, <<>>, <<>>) : t \in SeqsUpTo(FreeLex, MaxText) }

\* two independent JSON objects in one text
TwoObjectInputs ==
    { Input("two", pre, a \o mid \o b, post, a, b) :
        pre \in {<<>>, <<"json", " ">>, <<Fence, "json", "\n">>, <<"[">>},
        post \in {<<>>, <<"\n", Terminate>>, <<"\n", Fence>>, <<"]">>},
        mid \in {<<>>, <<"\n">>, <<",">>, <<" ", "json", " ">>},
        a \in ValidObjs, b \in ValidObjs }

Inputs == ProseInputs \cup FencedInputs \cup FreeInputs \cup TwoObjectInputs

TextOf(p) == p.pre \o p.body \o p.post

---------------------------------------------------------------------------
(* The extraction run: extract_json of 5.chat_demo.py and the parse step   *)
(* of run_workflow of 7.stock_analysis.py, each applied to the same text   *)

\* the validation variables of a run that is not one of 6.research_agent.py
ReportIdle == output = None /\ errors = <<>> /\ report = None

\* tavily_search has not returned
NotReturned == [returned |-> FALSE, items |-> <<>>]

\* the variables of tavily_search in a run that does not call it
SearchIdle ==
    /\ attempt = 0 /\ posts = 0 /\ slept = <<>>
    /\ responses = <<>> /\ out = NotReturned /\ exc = "none"

\* the variables of run_workflow past its parse step, before it gets there
WorkflowIdle ==
    /\ tool_result = None /\ tool_calls = 0
    /\ writer_input = None /\ report_md = <<>> /\ returned = None

\* the phase variables of a run that is not one of 5.chat_demo.py's main()
PhaseIdle ==
    /\ phase = "none" /\ reply = <<>> /\ task = "none"
    /\ runs = 0 /\ phase_runs = 0 /\ calls = 0 /\ restarts = 0
    /\ failed_on = <<>> /\ result = None /\ profile = None

InitExtract ==
    /\ prog = "extract"
    /\ PhaseIdle
    /\ ReportIdle
    /\ note = <<>> /\ SearchIdle /\ WorkflowIdle
    /\ parts \in Inputs
    /\ raw = TextOf(parts)
    /\ pc = "extract_json"
    /\ data = None
    /\ raised = FALSE
    /\ text1 = <<>>
    /\ data_json = None
    /\ span = NoMatch

\* 5.chat_demo.py: data = extract_json(reply)
ExtractJson ==
    /\ prog = "extract" /\ pc = "extract_json"
    /\ LET r == extract_json(raw) IN
         /\ data' = r.value
         /\ raised' = r.raised
    /\ span' = IF raw = <<>> THEN NoMatch ELSE JSON_PATTERN_search(raw)
    /\ pc' = IF extract_json(raw).raised THEN "raised" ELSE "strip_fences"
    /\ UNCHANGED <<prog, parts, raw, text1, data_json>>
    /\ UNCHANGED <<pvars, rvars, note, svars, wvars>>

\* 7.stock_analysis.py: text1 = _strip_fences(text1)
StripFences ==
    /\ prog = "extract" /\ pc = "strip_fences"
    /\ text1' = _strip_fences(raw)
    /\ span' = NoMatch
    /\ pc' = "parse"
    /\ UNCHANGED <<prog, parts, raw, data, raised, data_json>>
    /\ UNCHANGED <<pvars, rvars, note, svars, wvars>>

\* 7.stock_analysis.py: if text1: try: data_json = json.loads(text1)
ParseWhole ==
    /\ prog = "extract" /\ pc = "parse"
    /\ IF text1 = <<>>
       THEN pc' = "parsed" /\ UNCHANGED data_json
       ELSE LET r == json_loads(text1) IN
            IF r.ok THEN data_json' = r.val /\ pc' = "parsed"
            ELSE pc' = "regex" /\ UNCHANGED data_json
    /\ UNCHANGED <<prog, parts, raw, data, raised, text1, span>>
    /\ UNCHANGED <<pvars, rvars, note, svars, wvars>>

\* 7.stock_analysis.py: except Exception: m = re.search(r"\{.*\}", text1, re.S)
\* if m: try: data_json = json.loads(m.group(0)) except Exception: pass
ParseSpan ==
    /\ prog = "extract" /\ pc = "regex"
    /\ span' = JSON_PATTERN_search(text1)
    /\ IF span'.found
       THEN LET r == TryLoads(span'.group0) IN
            /\ data_json' = r.value
            /\ pc' = IF r.raised THEN "raised" ELSE "parsed"
            /\ raised' = r.raised
       ELSE pc' = "parsed" /\ UNCHANGED <<data_json, raised>>
    /\ UNCHANGED <<prog, parts, raw, data, text1>>
    /\ UNCHANGED <<pvars, rvars, note, svars, wvars>>

\* variant: if not isinstance(data_json, dict)
CheckMappingAnyDict ==
    /\ prog = "extract" /\ pc = "parsed"
    /\ pc' = IF ~IsDict(data_json) THEN "fallback" ELSE "accepted"
    /\ UNCHANGED <<prog, parts, raw, data, raised, text1, data_json, span>>
    /\ UNCHANGED <<pvars, rvars, note, svars, wvars>>

\* 7.stock_analysis.py: if not isinstance(data_json, dict) or not data_json
CheckMapping ==
    /\ prog = "extract" /\ pc = "parsed"
    /\ pc' = IF ~IsDict(data_json) \/ ~Truthy(data_json) THEN "fallback" ELSE "accepted"
    /\ UNCHANGED <<prog, parts, raw, data, raised, text1, data_json, span>>
    /\ UNCHANGED <<pvars, rvars, note, svars, wvars>>

NextExtract == ExtractJson \/ StripFences \/ ParseWhole \/ ParseSpan \/ CheckMapping

Spec == InitExtract /\ [][NextExtract]_vars

---------------------------------------------------------------------------
(* Properties of the extraction run *)

HasOpen(t) == \E i \in 1..Len(t) : t[i] = "{"
HasClose(t) == \E i \in 1..Len(t) : t[i] = "}"
\* a "{" followed later by a "}"
HasBracePair(t) == \E i \in 1..Len(t) : \E j \in i + 1..Len(t) : t[i] = "{" /\ t[j] = "}"
\* g is the part of t from its first "{" to its last "}"
FirstToLast(g, t) ==
    \E i \in 1..Len(t) : \E j \in i + 1..Len(t) :
        /\ g = SubSeq(t, i, j)
        /\ t[i] = "{" /\ \A k \in 1..i - 1 : t[k] # "{"
        /\ t[j] = "}" /\ \A k \in j + 1..Len(t) : t[k] # "}"

\* the object embedded in the input
Embedded == json_loads(parts.body).val
\* extract_json has returned
Done5 == prog = "extract" /\ pc # "extract_json"
\* the parse step of run_workflow has ended
Done7 == prog = "extract" /\ pc \in {"parsed", "fallback", "accepted"}
\* the fence-stripped text as a whole is a JSON document
WholeIsJson == json_loads(_strip_fences(raw)).ok

\* C1 as stated: for every text prose-before + {valid JSON object} + prose-after,
\* whatever the prose contains, extract_json and the parse step of run_workflow
\* return exactly the embedded object.
C1_AnyProse ==
    (prog = "extract" /\ parts.fam = "prose" /\ parts.body \in ValidObjs) =>
        /\ Done5 => data = Embedded
        /\ Done7 => data_json = Embedded

\* C1 amended: when prose-before holds no "{" and prose-after holds no "}",
\* extract_json returns exactly the embedded object, and so does the parse step
\* of run_workflow unless the fence-stripped text as a whole is a JSON document,
\* which it then returns instead.
C1_BraceFreeProse ==
    (/\ prog = "extract" /\ parts.fam = "prose" /\ parts.body \in ValidObjs
     /\ ~HasOpen(parts.pre) /\ ~HasClose(parts.post)) =>
        /\ ~raised
        /\ Done5 => data = Embedded
        /\ Done7 => data_json = IF WholeIsJson THEN json_loads(_strip_fences(raw)).val
                                ELSE Embedded

C1_Witness ==
    /\ prog = "extract" /\ pc = "accepted"
    /\ parts.fam = "prose" /\ parts.body = ObjNested
    /\ parts.pre = <<"}">> /\ parts.post = <<"{">>
    /\ data = Embedded /\ data_json = Embedded

\* C2: a valid JSON object wrapped in Markdown fences (with or without a language
\* tag, whitespace, a closing fence) is extracted, by extract_json and by
\* _strip_fences followed by the parse step, as the same object as the unwrapped
\* text: the embedded object itself.
C2_FenceTolerance ==
    (/\ prog = "extract" /\ parts.body \in ValidObjs
     /\ \/ parts.fam = "fenced"
        \/ parts.fam = "prose" /\ parts.pre = <<>> /\ parts.post = <<>>) =>
        /\ ~raised
        /\ Done5 => data = Embedded
        /\ Done7 => data_json = Embedded

C2_Witness ==
    /\ prog = "extract" /\ pc = "accepted"
    /\ parts.fam = "fenced" /\ parts.body = ObjTwo
    /\ parts.pre = <<"\n", Fence, "json">> /\ parts.post = <<"\n", Fence, "\n">>
    /\ text1 = ObjTwo
    /\ data = Embedded /\ data_json = Embedded

\* C3: for every text without a "{" followed later by a "}", the empty text
\* included, extract_json returns None (no parsed payload) and raises nothing.
C3_NoBracePair ==
    (Done5 /\ ~HasBracePair(raw)) => (data = None /\ ~raised)

C3_Witness ==
    /\ Done5 /\ ~HasBracePair(raw)
    /\ HasOpen(raw) /\ HasClose(raw)
    /\ data = None

\* what extract_json returns when the text holds no span
NoJsonFoundOutcome == extract_json(<<"json">>).value
\* a span was found in the text and it is not JSON
MalformedSpan(t) == HasBracePair(t) /\ ~json_loads(JSON_PATTERN_search(t).group0).ok

C5_NeverRaises ==
    /\ ~raised /\ pc # "raised"
    /\ (Done5 /\ ~(HasBracePair(raw) /\ ~MalformedSpan(raw))) => data = None
    /\ (Done7 /\ ~json_loads(text1).ok /\ ~(HasBracePair(text1) /\ ~MalformedSpan(text1)))
           => data_json = None

C5_Witness ==
    /\ prog = "extract" /\ pc = "fallback"
    /\ parts.fam = "free" /\ raw = <<"{", ":", "}">>
    /\ ~raised /\ data = None /\ data_json = None

\* C10: the substring handed to the JSON parser is exactly the part of the text
\* from its first "{" to its last "}", newlines included; one object with nested
\* braces is returned whole, and a text holding two independent JSON objects
\* yields a failure, never one of the two objects.
C10_GreedySpan ==
    /\ (prog = "extract" /\ pc = "strip_fences" /\ HasBracePair(raw)) =>
           (span.found /\ FirstToLast(span.group0, raw))
    /\ (prog = "extract" /\ pc = "strip_fences" /\ ~HasBracePair(raw)) => ~span.found
    /\ (Done7 /\ span.found) => FirstToLast(span.group0, text1)
    /\ (Done5 /\ parts.fam = "prose" /\ parts.body = ObjNested
          /\ ~HasOpen(parts.pre) /\ ~HasClose(parts.post)) => data = Embedded
    /\ (prog = "extract" /\ parts.fam = "two") =>
           /\ Done5 => data = None
           /\ Done7 => data_json \notin {json_loads(parts.a).val, json_loads(parts.b).val}
           /\ pc # "accepted"

C10_Witness ==
    /\ prog = "extract" /\ pc = "fallback"
    /\ parts.fam = "two" /\ parts.a = ObjOne /\ parts.b = ObjNested
    /\ parts.pre = <<"json", " ">> /\ \E i \in 1..Len(parts.body) : parts.body[i] = "\n"
    /\ span.found /\ span.group0 = parts.body
    /\ data = None /\ data_json = None

---------------------------------------------------------------------------
(* 5.chat_demo.py: main() running phase_personal_info, then phase_issue *)

\* most invocations of one phase function the model follows
MaxCalls == 3

\* "TERMINATE" in payload.upper()
Upper(c) == IF c = "terminate" THEN Terminate ELSE c
\* variant: "TERMINATE" in payload, the letter case kept
require_terminate_exact(payload) == \E i \in 1..Len(payload) : payload[i] = Terminate
require_terminate(payload) == \E i \in 1..Len(payload) : Upper(payload[i]) = Terminate

\* the two keys a phase requires
Keys(ph) == IF ph = "personal_info" THEN <<QName, QLocation>> ELSE <<QProduct, QIssue>>

\* the texts a member of the reply can be: absent, or the key with a value
FieldTexts(key) ==
    { <<>>, <<key, ":", QAnn>>, <<key, ":", QEmpty>>, <<key, ":", "1">>,
      <<key, ":", "0">>, <<key, ":", "null">>, <<key, ":", "[", "1", "]">> }

ObjText(f1, f2) ==
    <<"{">> \o f1 \o (IF f1 # <<>> /\ f2 # <<>> THEN <<",">> ELSE <<>>) \o f2 \o <<"}">>

Tails == { <<>>, <<"\n", Terminate>>, <<" ", "terminate">> }

\* what the agent of a phase may reply: an object over the keys of the phase,
\* followed or not by the marker line, or something else
Replies(ph) ==
    { ObjText(f1, f2) \o tail :
        f1 \in FieldTexts(Keys(ph)[1]), f2 \in FieldTexts(Keys(ph)[2]), tail \in Tails }
    \cup { <<>>, <<Terminate>>, <<"json">>, <<"{", QName, ":", "}", "\n", Terminate>>,
           ObjTwo \o <<"\n">> \o ObjTwo \o <<"\n", Terminate>>,
           <<"json", "\n">> \o ObjTwo \o <<"\n", Terminate, "\n">> }

\* last_text(res): the content of the last message, stripped
last_text(content) == Strip(content)

InitPhase ==
    /\ prog = "chat"
    /\ pc = "prompt"
    /\ phase = "personal_info"
    /\ reply = <<>> /\ task = "none"
    /\ runs = 0 /\ phase_runs = 0 /\ calls = 0 /\ restarts = 0
    /\ failed_on = <<>> /\ result = None /\ profile = None
    /\ data = None /\ raised = FALSE
    /\ parts = Input("none", <<>>, <<>>, <<>>, <<>>, <<>>)
    /\ raw = <<>> /\ text1 = <<>> /\ data_json = None /\ span = NoMatch
    /\ ReportIdle
    /\ note = <<>> /\ SearchIdle /\ WorkflowIdle

\* user_text = prompt_user(...): a new invocation of the phase function, whose
\* locals (reply, data) are not set yet
PromptUser ==
    /\ prog = "chat" /\ pc = "prompt"
    /\ calls < MaxCalls
    /\ calls' = calls + 1
    /\ runs' = 0
    /\ reply' = <<>> /\ task' = "none" /\ data' = None /\ failed_on' = <<>>
    /\ pc' = "run"
    /\ UNCHANGED <<prog, raised, xvars, phase, phase_runs, restarts, result, profile>>
    /\ UNCHANGED <<rvars, note, svars, wvars>>

\* res = await agent.run(task=task); reply = last_text(res)
AgentRun ==
    /\ prog = "chat" /\ pc = "run"
    /\ \E content \in Replies(phase) : reply' = last_text(content)
    /\ task' = "plain"
    /\ runs' = runs + 1
    /\ phase_runs' = phase_runs + 1
    /\ pc' = "check_terminate"
    /\ UNCHANGED <<prog, data, raised, xvars, phase, calls, restarts, failed_on,
                   result, profile>>
    /\ UNCHANGED <<rvars, note, svars, wvars>>

\* if not require_terminate(reply):
\*     res = await agent.run(task=task + "\nRemember: Append TERMINATE.")
\*     reply = last_text(res)
ReminderRun ==
    /\ prog = "chat" /\ pc = "check_terminate"
    /\ IF ~require_terminate(reply)
       THEN /\ \E content \in Replies(phase) : reply' = last_text(content)
            /\ task' = "reminder"
            /\ runs' = runs + 1
            /\ phase_runs' = phase_runs + 1
       ELSE UNCHANGED <<reply, task, runs, phase_runs>>
    /\ pc' = "extract"
    /\ UNCHANGED <<prog, data, raised, xvars, phase, calls, restarts, failed_on,
                   result, profile>>
    /\ UNCHANGED <<rvars, note, svars, wvars>>

\* extract_json(reply) or {}
OrEmpty(v) == IF Truthy(v) THEN v ELSE Dict(EmptyMap)

\* not data.get(k1) or not data.get(k2): the keys whose test was true; the
\* second key is tested only when the first test was false
FailedTests(d, ks) ==
    IF ~Truthy(Get(d, ks[1])) THEN <<ks[1]>>
    ELSE IF ~Truthy(Get(d, ks[2])) THEN <<ks[2]>>
    ELSE <<>>

\* data = extract_json(reply) or {}
\* if not data.get(k1) or not data.get(k2): return await <the same phase>()
\* return {k1: data[k1], k2: data[k2]}
ExtractValidate ==
    /\ prog = "chat" /\ pc = "extract"
    /\ LET r == extract_json(reply)
           d == OrEmpty(r.value)
           ks == Keys(phase)
       IN  /\ data' = d
           /\ raised' = (r.raised \/ ~IsDict(d))
           /\ IF r.raised \/ ~IsDict(d)
              THEN pc' = "raised" /\ UNCHANGED <<failed_on, restarts, result>>
              ELSE /\ failed_on' = FailedTests(d, ks)
                   /\ IF FailedTests(d, ks) # <<>>
                      THEN /\ pc' = "prompt"
                           /\ restarts' = restarts + 1
                           /\ UNCHANGED result
                      ELSE /\ pc' = "returned"
                           /\ result' = Dict([k \in {ks[1], ks[2]} |-> Get(d, k)])
                           /\ UNCHANGED restarts
    /\ UNCHANGED <<prog, xvars, phase, reply, task, runs, phase_runs, calls, profile>>
    /\ UNCHANGED <<rvars, note, svars, wvars>>

\* main(): profile = await phase_personal_info(); issue = await phase_issue()
MainNext ==
    /\ prog = "chat" /\ pc = "returned"
    /\ IF phase = "personal_info"
       THEN /\ profile' = result
            /\ phase' = "issue"
            /\ pc' = "prompt"
            /\ result' = None
            /\ calls' = 0 /\ runs' = 0 /\ phase_runs' = 0 /\ restarts' = 0
            /\ failed_on' = <<>>
       ELSE /\ pc' = "done"
            /\ UNCHANGED <<profile, phase, result, calls, runs, phase_runs, restarts,
                           failed_on>>
    /\ UNCHANGED <<prog, data, raised, xvars, reply, task>>
    /\ UNCHANGED <<rvars, note, svars, wvars>>

NextPhase == PromptUser \/ AgentRun \/ ReminderRun \/ ExtractValidate \/ MainNext

SpecPhase == InitPhase /\ [][NextPhase]_vars

---------------------------------------------------------------------------
(* 6.research_agent.py: the validation of the agent's structured output as a *)
(* ResearchReport (output_content_type=ResearchReport)                       *)

\* confidence: float = Field(ge=0.0, le=1.0), in tenths
ConfidenceGe == 0
ConfidenceLe == 10

\* longest list of a structured output
MaxItems == 2

\* one line of a ValidationError: the field, the index of the list element
\* (0: the field itself), the member of that element ("": the element itself)
Err(f, i, m, t) == [field |-> f, index |-> i, member |-> m, type |-> t]

RECURSIVE Flatten(_)
Flatten(ss) == IF ss = <<>> THEN <<>> ELSE Head(ss) \o Flatten(Tail(ss))

Has(d, k) == k \in DOMAIN d.members

\* a str field
StrErrors(f, i, m, v) == IF v.kind = "str" THEN <<>> ELSE <<Err(f, i, m, "string_type")>>

\* a required str member of a nested model
MemberErrors(f, i, m, d) ==
    IF ~Has(d, m) THEN <<Err(f, i, m, "missing")>> ELSE StrErrors(f, i, m, d.members[m])

\* class Source(BaseModel): title: str; url: str
SourceErrors(f, i, v) ==
    IF v.kind # "dict" THEN <<Err(f, i, "", "model_type")>>
    ELSE MemberErrors(f, i, "title", v) \o MemberErrors(f, i, "url", v)

\* a List[str] field: every element is validated
ListOfStrErrors(f, v) ==
    IF v.kind # "list" THEN <<Err(f, 0, "", "list_type")>>
    ELSE Flatten([i \in 1..Len(v.items) |-> StrErrors(f, i, "", v.items[i])])

\* a List[Source] field
ListOfSourceErrors(f, v) ==
    IF v.kind # "list" THEN <<Err(f, 0, "", "list_type")>>
    ELSE Flatten([i \in 1..Len(v.items) |-> SourceErrors(f, i, v.items[i])])

\* mutant: Field(gt=0.0, lt=1.0)
FloatRangeErrorsStrict(f, v, ge, le) ==
    CASE v.kind \in {"num", "float"} ->
           LET t == IF v.kind = "num" THEN 10 * v.n ELSE v.n IN
           IF t <= ge THEN <<Err(f, 0, "", "greater_than_equal")>>
           ELSE IF t >= le THEN <<Err(f, 0, "", "less_than_equal")>>
           ELSE <<>>
      [] v.kind = "str" -> <<Err(f, 0, "", "float_parsing")>>
      [] OTHER -> <<Err(f, 0, "", "float_type")>>

\* a float field with Field(ge=..., le=...): an int is taken as a float
FloatRangeErrors(f, v, ge, le) ==
    CASE v.kind \in {"num", "float"} ->
           LET t == IF v.kind = "num" THEN 10 * v.n ELSE v.n IN
           IF t < ge THEN <<Err(f, 0, "", "greater_than_equal")>>
           ELSE IF t > le THEN <<Err(f, 0, "", "less_than_equal")>>
           ELSE <<>>
      [] v.kind = "str" -> <<Err(f, 0, "", "float_parsing")>>
      [] OTHER -> <<Err(f, 0, "", "float_type")>>

\* the errors of each field of class ResearchReport(BaseModel), in its order
QuestionErrors(d) ==
    IF ~Has(d, "question") THEN <<Err("question", 0, "", "missing")>>
    ELSE StrErrors("question", 0, "", d.members["question"])
FindingsErrors(d) ==
    IF ~Has(d, "findings") THEN <<Err("findings", 0, "", "missing")>>
    ELSE ListOfStrErrors("findings", d.members["findings"])
SourcesErrors(d) ==
    IF ~Has(d, "sources") THEN <<Err("sources", 0, "", "missing")>>
    ELSE ListOfSourceErrors("sources", d.members["sources"])
ConfidenceErrors(d) ==
    IF ~Has(d, "confidence") THEN <<Err("confidence", 0, "", "missing")>>
    ELSE FloatRangeErrors("confidence", d.members["confidence"], ConfidenceGe, ConfidenceLe)
\* next_steps: List[str] = Field(default_factory=list)
NextStepsErrors(d) ==
    IF ~Has(d, "next_steps") THEN <<>>
    ELSE ListOfStrErrors("next_steps", d.members["next_steps"])

\* every field is validated, whatever the fields before it gave
ReportErrors(d) ==
    QuestionErrors(d) \o FindingsErrors(d) \o SourcesErrors(d)
        \o ConfidenceErrors(d) \o NextStepsErrors(d)

ReportFields == {"question", "findings", "sources", "confidence", "next_steps"}

\* the ResearchReport of a valid mapping: the declared fields, next_steps
\* defaulting to []
ReportOf(d) ==
    Dict([f \in ReportFields |-> IF Has(d, f) THEN d.members[f] ELSE Arr(<<>>)])

\* the values the output may give each field; Absent: the key is not there
Absent == [kind |-> "absent", atom |-> "", n |-> 0, items |-> <<>>, members |-> EmptyMap]
SomeStr == Str(QAnn)
SourceOk == Dict([m \in {"title", "url"} |-> SomeStr])
SourceNoUrl == Dict([m \in {"title"} |-> SomeStr])
ListsOf(S) == {Arr(xs) : xs \in SeqsUpTo(S, MaxItems)}

QuestionValues == {Absent, SomeStr, Num(1)}
FindingsValues == {Absent, SomeStr} \cup ListsOf({SomeStr, Num(1)})
SourcesValues == {Absent, Num(1), Arr(<<>>), Arr(<<SourceOk>>), Arr(<<SourceNoUrl>>)}
ConfidenceValues ==
    {Absent, SomeStr, None, Num(0), Num(1), Num(10)}
        \cup {Float(t) : t \in {-1, 0, 5, 10, 11, 15}}
NextStepsValues == {Absent, SomeStr, Arr(<<SomeStr>>)}

Outputs ==
    { LET all == [f \in ReportFields |->
                    CASE f = "question" -> q [] f = "findings" -> fi
                      [] f = "sources" -> so [] f = "confidence" -> c
                      [] OTHER -> ns]
      IN  Dict([f \in {g \in ReportFields : all[g] # Absent} |-> all[f]]) :
        q \in QuestionValues, fi \in FindingsValues, so \in SourcesValues,
        c \in ConfidenceValues, ns \in NextStepsValues }

InitReport ==
    /\ prog = "report"
    /\ pc = "validate"
    /\ output \in Outputs
    /\ errors = <<>> /\ report = None
    /\ data = None /\ raised = FALSE
    /\ parts = Input("none", <<>>, <<>>, <<>>, <<>>, <<>>)
    /\ raw = <<>> /\ text1 = <<>> /\ data_json = None /\ span = NoMatch
    /\ PhaseIdle
    /\ note = <<>> /\ SearchIdle /\ WorkflowIdle

\* the framework validates the model's output as output_content_type
ValidateReport ==
    /\ prog = "report" /\ pc = "validate"
    /\ errors' = ReportErrors(output)
    /\ report' = IF ReportErrors(output) = <<>> THEN ReportOf(output) ELSE None
    /\ pc' = IF ReportErrors(output) = <<>> THEN "validated" ELSE "rejected"
    /\ UNCHANGED <<prog, data, raised, xvars, pvars, output, note, svars, wvars>>

\* report: ResearchReport = last.content, then the prints of main()
PrintReport ==
    /\ prog = "report" /\ pc = "validated"
    /\ pc' = "printed"
    /\ UNCHANGED <<prog, data, raised, xvars, pvars, rvars, note, svars, wvars>>

NextReport == ValidateReport \/ PrintReport

SpecReport == InitReport /\ [][NextReport]_vars

---------------------------------------------------------------------------
(* Properties of the onboarding phases *)

\* C6: the retries of a phase after a failed extraction or validation are
\* bounded by a fixed count, so a phase makes boundedly many agent runs. The
\* count is MaxCalls here, and any other count is passed the same way.
C6_BoundedRetries == prog = "chat" => (restarts < MaxCalls /\ phase_runs < 2 * MaxCalls)

\* C6, what the code bounds: one invocation of a phase makes at most two agent
\* runs, the first with the plain task and the second, made only for a missing
\* TERMINATE, with the reminder; each failed extraction or validation makes the
\* phase call itself again, asking the user anew and with the plain task.
C6_RestartPerFailure ==
    prog = "chat" =>
        /\ runs <= 2
        /\ runs = 1 => task = "plain"
        /\ runs = 2 => task = "reminder"
        /\ calls = IF pc = "prompt" THEN restarts ELSE restarts + 1
        /\ phase_runs <= 2 * calls
        /\ pc \in {"check_terminate", "extract", "returned"} => phase_runs >= calls

\* a phase that failed twice, ran the agent twice in each of its three
\* invocations, and restarted with the plain task each time
C6_Witness ==
    /\ prog = "chat" /\ phase = "issue" /\ pc = "returned"
    /\ restarts = 2 /\ calls = 3
    /\ runs = 2 /\ task = "reminder" /\ phase_runs = 6

NonEmptyStr(v) == v.kind = "str" /\ v.atom # QEmpty

\* C7: every record a phase returns holds both required keys as non-empty
\* strings; a parsed payload with a required field missing, empty or not a
\* string is rejected.
C7_NonEmptyStrings ==
    (prog = "chat" /\ pc = "returned") =>
        /\ DOMAIN result.members = {Keys(phase)[1], Keys(phase)[2]}
        /\ \A k \in DOMAIN result.members : NonEmptyStr(result.members[k])

\* C7, what the code rejects: a returned record holds both keys with truthy
\* values, the values of data
C7_TruthyFields ==
    (prog = "chat" /\ pc = "returned") =>
        /\ DOMAIN result.members = {Keys(phase)[1], Keys(phase)[2]}
        /\ \A k \in DOMAIN result.members :
               Truthy(result.members[k]) /\ result.members[k] = Get(data, k)

\* phase_personal_info returns {"name": 1, "location": "Ann"}
C7_Witness ==
    /\ prog = "chat" /\ phase = "personal_info" /\ pc = "returned"
    /\ result.members[QName] = Num(1)
    /\ result.members[QLocation] = Str(QAnn)

\* the keys of the phase that data lacks or holds a falsy value for
OffendingKeys == {k \in {Keys(phase)[1], Keys(phase)[2]} : ~Truthy(Get(data, k))}
\* a phase's check of data has just failed
CheckFailed == prog = "chat" /\ pc = "prompt" /\ failed_on # <<>>

\* C9: validation does not short-circuit; a payload with k offending fields has
\* all k of them examined and reported, not only the first one.
C9_NoShortCircuit ==
    CheckFailed =>
        {failed_on[i] : i \in 1..Len(failed_on)} = OffendingKeys

\* C9, what the check of a phase does: it stops at the first failing key
C9_FirstFailingKey ==
    CheckFailed =>
        /\ Len(failed_on) = 1
        /\ failed_on[1] \in OffendingKeys
        /\ failed_on[1] = Keys(phase)[2] => Keys(phase)[1] \notin OffendingKeys

\* both keys are missing and the check has looked at the first only
C9_Witness ==
    /\ CheckFailed
    /\ data = Dict(EmptyMap)
    /\ Cardinality(OffendingKeys) = 2
    /\ failed_on = <<Keys(phase)[1]>>

---------------------------------------------------------------------------
(* Properties of the ResearchReport validation *)

Validated == prog = "report" /\ pc # "validate"
ErrorsOn(f) == {i \in 1..Len(errors) : errors[i].field = f}
RangeTypes == {"greater_than_equal", "less_than_equal"}

\* C8: confidence is accepted exactly when it is a number in [0, 1], 0 and 1
\* included; a number outside the range (1.5) gives an out-of-range error on
\* confidence and no record, as does a value that is no number.
C8_InclusiveRange ==
    (Validated /\ Has(output, "confidence")) =>
        LET c == output.members["confidence"]
            numeric == c.kind \in {"num", "float"}
            t == IF c.kind = "num" THEN 10 * c.n ELSE c.n
        IN  /\ (ErrorsOn("confidence") = {}) <=> (numeric /\ 0 <= t /\ t <= 10)
            /\ (numeric /\ (t < 0 \/ t > 10)) =>
                   /\ \A i \in ErrorsOn("confidence") : errors[i].type \in RangeTypes
                   /\ Cardinality(ErrorsOn("confidence")) = 1
            /\ ErrorsOn("confidence") # {} => (report = None /\ pc = "rejected")
            /\ report # None => report.members["confidence"] = c

\* confidence 1.5 in an otherwise valid output
C8_Witness ==
    /\ prog = "report" /\ pc = "rejected"
    /\ Has(output, "confidence") /\ output.members["confidence"] = Float(15)
    /\ errors = <<Err("confidence", 0, "", "less_than_equal")>>
    /\ report = None

\* the errors of one field of the report
FieldErrors(f) ==
    CASE f = "question" -> QuestionErrors(output)
      [] f = "findings" -> FindingsErrors(output)
      [] f = "sources" -> SourcesErrors(output)
      [] f = "confidence" -> ConfidenceErrors(output)
      [] OTHER -> NextStepsErrors(output)
OffendingFields == {f \in ReportFields : FieldErrors(f) # <<>>}

\* C9, what the validation of a ResearchReport does: every offending field has
\* its errors reported (one for a missing field, a wrong type or a range
\* violation, one per offending element of a list), so two missing required
\* fields and an out-of-range confidence give exactly three.
C9_ReportAccumulates ==
    (prog = "report" /\ pc = "rejected") =>
        /\ \A f \in OffendingFields : ErrorsOn(f) # {}
        /\ \A f \in ReportFields \ OffendingFields : ErrorsOn(f) = {}
        /\ Len(errors) >= Cardinality(OffendingFields)
        /\ (\A i \in 1..Len(errors) :
                errors[i].type \in RangeTypes \cup {"missing"} /\ errors[i].index = 0)
              => Len(errors) = Cardinality(OffendingFields)

\* question and findings missing, confidence 1.5: three errors
C9_ThreeErrors ==
    /\ prog = "report" /\ pc = "rejected"
    /\ ~Has(output, "question") /\ ~Has(output, "findings")
    /\ Has(output, "confidence") /\ output.members["confidence"] = Float(15)
    /\ Len(errors) = 3
    /\ {errors[i].field : i \in 1..3} = {"question", "findings", "confidence"}

---------------------------------------------------------------------------
(* 6.research_agent.py: one call of tavily_search *)

\* for attempt in range(3)
Attempts == 3
\* if attempt == 2: raise
LastAttempt == 2
\* (data.get("results") or [])[:6]
MaxResults == 6
\* time.sleep(0.8 * (attempt + 1)), in tenths of a second
SleepTenths == 8

\* most items in the results of one response
MaxHits == 8

\* what makes an attempt fail: requests.post raising, raise_for_status, r.json(),
\* data.get on a value that is no mapping
Failures == {"ConnectionError", "Timeout", "HTTPError", "JSONDecodeError", "AttributeError"}

\* what one request can meet: a failure, or a body whose "results" holds hits
\* items (0 also for a missing or null "results")
Responses ==
    { [kind |-> "fail", exc |-> e, hits |-> 0] : e \in Failures }
    \cup { [kind |-> "ok", exc |-> "none", hits |-> n] : n \in 0..MaxHits }

\* the items kept of a response, named by their position in "results"
Kept(resp) == [i \in 1..Min({resp.hits, MaxResults}) |-> i]

InitSearch ==
    /\ prog = "search" /\ pc = "post"
    /\ data = None /\ raised = FALSE
    /\ parts = [pre |-> <<>>, body |-> <<>>, post |-> <<>>]
    /\ raw = <<>> /\ text1 = <<>> /\ data_json = None /\ span = NoMatch
    /\ PhaseIdle /\ ReportIdle
    /\ note = <<>> /\ SearchIdle /\ WorkflowIdle

\* variant: the failure of the last attempt is swallowed like the others
TavilyAttemptSwallow ==
    /\ prog = "search" /\ pc = "post"
    /\ IF attempt < Attempts
       THEN \E resp \in Responses :
              /\ posts' = posts + 1
              /\ responses' = Append(responses, resp)
              /\ IF resp.kind = "ok"
                 THEN /\ out' = [returned |-> TRUE, items |-> Kept(resp)]
                      /\ pc' = "returned"
                      /\ UNCHANGED <<attempt, slept, exc>>
                 ELSE /\ slept' = Append(slept, SleepTenths * (attempt + 1))
                      /\ attempt' = attempt + 1
                      /\ pc' = "post"
                      /\ UNCHANGED <<out, exc>>
       ELSE /\ out' = [returned |-> TRUE, items |-> <<>>]
            /\ pc' = "returned"
            /\ UNCHANGED <<attempt, posts, slept, responses, exc>>
    /\ UNCHANGED <<prog, data, raised, xvars, pvars, rvars, note, wvars>>

\* one turn of the loop of tavily_search, or the return after the loop
TavilyAttempt ==
    /\ prog = "search" /\ pc = "post"
    /\ IF attempt < Attempts
       THEN \E resp \in Responses :
              /\ posts' = posts + 1
              /\ responses' = Append(responses, resp)
              /\ IF resp.kind = "ok"
                 THEN \* return out
                      /\ out' = [returned |-> TRUE, items |-> Kept(resp)]
                      /\ pc' = "returned"
                      /\ UNCHANGED <<attempt, slept, exc>>
                 ELSE IF attempt = LastAttempt
                 THEN \* raise
                      /\ exc' = resp.exc
                      /\ pc' = "raised"
                      /\ UNCHANGED <<attempt, slept, out>>
                 ELSE \* time.sleep(0.8 * (attempt + 1)), next attempt
                      /\ slept' = Append(slept, SleepTenths * (attempt + 1))
                      /\ attempt' = attempt + 1
                      /\ pc' = "post"
                      /\ UNCHANGED <<out, exc>>
       ELSE \* return []
            /\ out' = [returned |-> TRUE, items |-> <<>>]
            /\ pc' = "returned"
            /\ UNCHANGED <<attempt, posts, slept, responses, exc>>
    /\ UNCHANGED <<prog, data, raised, xvars, pvars, rvars, note, wvars>>

NextSearch == TavilyAttempt

SpecSearch == InitSearch /\ [][NextSearch]_vars

---------------------------------------------------------------------------
(* Properties of tavily_search *)

AllFailed(n) == \A i \in 1..n : responses[i].kind = "fail"

\* C11: tavily_search makes at most 3 requests; it returns the first 6 items at
\* most of the first response that succeeds and makes no request after it; it
\* waits after a failed first or second attempt and tries again; a failed third
\* attempt leaves with that failure; it never returns because the loop ran out.
C11_AtMostThreeAttempts ==
    prog = "search" =>
        /\ posts <= 3 /\ posts = Len(responses)
        /\ pc = "post" => (posts < 3 /\ AllFailed(posts) /\ Len(slept) = posts)
        /\ pc = "returned" =>
               /\ posts >= 1
               /\ responses[posts].kind = "ok" /\ AllFailed(posts - 1)
               /\ Len(slept) = posts - 1
               /\ out.returned /\ exc = "none"
               /\ Len(out.items) = (IF responses[posts].hits <= 6
                                    THEN responses[posts].hits ELSE 6)
               /\ \A i \in 1..Len(out.items) : out.items[i] = i
        /\ pc = "raised" =>
               /\ posts = 3 /\ AllFailed(3)
               /\ exc = responses[3].exc /\ ~out.returned
               /\ slept = <<8, 16>>
        /\ \A i \in 1..Len(slept) : slept[i] = 8 * i

\* two failures, then a response with more than 6 items
C11_Witness ==
    /\ prog = "search" /\ pc = "returned"
    /\ posts = 3 /\ slept = <<8, 16>>
    /\ responses[3].hits = 8 /\ Len(out.items) = 6

\* three failures: the third one is the one raised
C11_WitnessRaised ==
    /\ prog = "search" /\ pc = "raised"
    /\ responses[1].exc = "Timeout" /\ responses[3].exc = "HTTPError"
    /\ exc = "HTTPError"

---------------------------------------------------------------------------
(* 7.stock_analysis.py: run_workflow past its parse step *)

QError == "\"error\""
QSymbol == "\"symbol\""
QPrices == "\"prices\""
QRawModelOutput == "\"raw_model_output\""
Ratios == {"\"pe_ratio\"", "\"forward_pe\"", "\"dividend_rate\"", "\"price_to_book\"",
           "\"debt_to_equity\"", "\"roe\""}

\* a str value given by the lexemes of its text
Text(t) == [kind |-> "text", atom |-> "", n |-> 0, items |-> t, members |-> EmptyMap]

\* what yfinance gives _work: an exception, nothing known of the ticker, or
\* the info and the history of the ticker
YfOutcomes == {"raises", "unknown", "known"}

\* fetch_stock_data(ticker): the mapping _work returns
fetch_stock_data(yf) ==
    IF yf = "raises" THEN Dict([k \in {QError} |-> Str(QAnn)])
    ELSE Dict([k \in {QName, QSymbol, QPrices} \cup Ratios |->
                 CASE k = QName -> IF yf = "known" THEN Str(QAnn) ELSE Str(QEmpty)
                   [] k = QSymbol -> Str(QAnn)
                   [] k = QPrices -> IF yf = "known"
                                     THEN Dict([d \in {QAnn} |-> Float(15)])
                                     ELSE Dict(EmptyMap)
                   [] OTHER -> IF yf = "known" THEN Float(15) ELSE None])

\* {"error": "Could not obtain data", "raw_model_output": text1}
ErrorRecord(t) ==
    Dict([k \in {QError, QRawModelOutput} |-> IF k = QError THEN Str(QAnn) ELSE Text(t)])

\* the last text of the writer agent's result, and what stands in for none
WriterTexts == {<<>>, <<"report">>}
NoReport == <<"_No report generated._">>

\* variant: fetch_stock_data is called whatever the parse step gave
FetchDirectAlways ==
    /\ prog = "extract" /\ pc \in {"fallback", "accepted"}
    /\ \E yf \in YfOutcomes :
         LET r == fetch_stock_data(yf) IN
         /\ tool_result' = r
         /\ data_json' = IF ~IsDict(r) \/ ~Truthy(r) THEN ErrorRecord(text1) ELSE r
    /\ tool_calls' = tool_calls + 1
    /\ pc' = "chosen"
    /\ UNCHANGED <<prog, parts, raw, data, raised, text1, span>>
    /\ UNCHANGED <<pvars, rvars, note, svars, writer_input, report_md, returned>>

\* data_json = await fetch_stock_data(ticker)
\* if not isinstance(data_json, dict) or not data_json: data_json = {"error": ...}
FetchDirect ==
    /\ prog = "extract" /\ pc = "fallback"
    /\ \E yf \in YfOutcomes :
         LET r == fetch_stock_data(yf) IN
         /\ tool_result' = r
         /\ data_json' = IF ~IsDict(r) \/ ~Truthy(r) THEN ErrorRecord(text1) ELSE r
    /\ tool_calls' = tool_calls + 1
    /\ pc' = "chosen"
    /\ UNCHANGED <<prog, parts, raw, data, raised, text1, span>>
    /\ UNCHANGED <<pvars, rvars, note, svars, writer_input, report_md, returned>>

\* res2 = await writer_agent.run(task=task_writer); report_md = ...
\* return data_json, (report_md or "_No report generated._"), ...
WriterRun ==
    /\ prog = "extract" /\ pc \in {"accepted", "chosen"}
    /\ writer_input' = data_json
    /\ \E md \in WriterTexts : report_md' = IF md # <<>> THEN md ELSE NoReport
    /\ returned' = data_json
    /\ pc' = "returned"
    /\ UNCHANGED <<prog, parts, raw, data, raised, text1, data_json, span>>
    /\ UNCHANGED <<pvars, rvars, note, svars, tool_result, tool_calls>>

NextWorkflow == NextExtract \/ FetchDirect \/ WriterRun

SpecWorkflow == InitExtract /\ [][NextWorkflow]_vars

---------------------------------------------------------------------------
(* Properties of run_workflow *)

NonEmptyMapping(v) == v.kind = "dict" /\ DOMAIN v.members # {}

\* what the analyst's reply parses to: the fence-stripped text as a whole,
\* else its first "{" to last "}", else nothing
ReplyValue ==
    LET t == _strip_fences(raw)
        m == JSON_PATTERN_search(t)
    IN  IF t = <<>> THEN None
        ELSE IF json_loads(t).ok THEN json_loads(t).val
        ELSE IF m.found /\ json_loads(m.group0).ok THEN json_loads(m.group0).val
        ELSE None

\* the fallback check of run_workflow has been passed
Chosen == prog = "extract" /\ pc \in {"chosen", "returned"}

\* C12: the data given to the writer and returned is a non-empty mapping: the
\* analyst's reply parsed when that is a non-empty mapping, else the result of
\* fetch_stock_data, else the error record; run_workflow calls fetch_stock_data
\* itself exactly when the reply gave no non-empty mapping, and the writer runs
\* after the choice.
C12_PriorityChoice ==
    /\ Chosen =>
         /\ NonEmptyMapping(data_json)
         /\ data_json = (IF NonEmptyMapping(ReplyValue) THEN ReplyValue
                         ELSE IF NonEmptyMapping(tool_result) THEN tool_result
                         ELSE ErrorRecord(text1))
         /\ tool_calls = (IF NonEmptyMapping(ReplyValue) THEN 0 ELSE 1)
         /\ tool_calls = 0 <=> tool_result = None
    /\ (prog = "extract" /\ ~Chosen) => (tool_calls = 0 /\ tool_result = None)
    /\ (prog = "extract" /\ pc = "returned") =>
         (writer_input = data_json /\ returned = data_json /\ report_md # <<>>)
    /\ (prog = "extract" /\ pc # "returned") =>
         (writer_input = None /\ returned = None /\ report_md = <<>>)

\* the analyst replied {} and the writer was given what the tool returned
C12_Witness ==
    /\ prog = "extract" /\ pc = "returned"
    /\ ReplyValue = Dict(EmptyMap)
    /\ tool_calls = 1 /\ tool_result = fetch_stock_data("known")
    /\ writer_input = tool_result /\ returned = tool_result

\* the analyst replied a non-empty mapping inside a fence and it was returned
C12_WitnessReply ==
    /\ prog = "extract" /\ pc = "returned"
    /\ raw[1] = Fence
    /\ NonEmptyMapping(ReplyValue) /\ returned = ReplyValue /\ tool_calls = 0

---------------------------------------------------------------------------
(* 5.chat_demo.py: main() going on to phase_engagement *)

\* what the engagement agent may reply: a note, with the marker or without,
\* the marker in upper or in lower case
EngagementReplies ==
    { <<>>, <<"hello">>, <<"hello", "\n", Terminate>>, <<"hello", " ", "terminate">>,
      <<Terminate>>, <<"terminate", "\n", "hello">>, <<" ", "hello", "\n">> }

\* engagement = await phase_engagement(profile, issue), up to
\* res = await engagement_agent.run(task=task); reply = last_text(res);
\* the locals of the phase that returned are gone
EngagementRun ==
    /\ prog = "chat" /\ pc = "done" /\ phase = "issue"
    /\ phase' = "engagement"
    /\ \E content \in EngagementReplies : reply' = last_text(content)
    /\ task' = "plain"
    /\ calls' = 1 /\ runs' = 1 /\ phase_runs' = 1 /\ restarts' = 0
    /\ data' = None /\ failed_on' = <<>>
    /\ pc' = "append_terminate"
    /\ UNCHANGED <<prog, raised, xvars, result, profile>>
    /\ UNCHANGED <<rvars, note, svars, wvars>>

\* if not require_terminate(reply): reply += "\nTERMINATE"
\* return reply
EngagementReturn ==
    /\ prog = "chat" /\ pc = "append_terminate" /\ phase = "engagement"
    /\ note' = IF ~require_terminate(reply) THEN reply \o <<"\n", Terminate>> ELSE reply
    /\ pc' = "engaged"
    /\ UNCHANGED <<prog, data, raised, xvars, pvars>>
    /\ UNCHANGED <<rvars, svars, wvars>>

NextChat == NextPhase \/ EngagementRun \/ EngagementReturn

SpecChat == InitPhase /\ [][NextChat]_vars

---------------------------------------------------------------------------
(* Properties of the termination marker *)

\* t holds the marker, in upper or in lower case
Marked(t) == \E i \in 1..Len(t) : t[i] \in {"TERMINATE", "terminate"}
\* t holds the marker in upper case
MarkedUpper(t) == \E i \in 1..Len(t) : t[i] = "TERMINATE"
Engaged == prog = "chat" /\ pc = "engaged"
InPhase == prog = "chat" /\ phase \in {"personal_info", "issue"}

\* C13 as stated: whatever the agent replied, the string phase_engagement
\* returns holds TERMINATE.
C13_AlwaysTerminate == Engaged => MarkedUpper(note)

\* C13 amended: a phase invocation makes a second agent run exactly when the
\* first reply lacks the marker in any letter case, and at most that one; the
\* reply of the second run is what is extracted from, marked or not;
\* phase_engagement returns the reply itself when it holds the marker in any
\* letter case, and the reply followed by a TERMINATE line otherwise, so what it
\* returns holds the marker, in upper case unless the reply had it in lower
\* case only.
C13_MarkerProtocol ==
    /\ [][(InPhase /\ pc = "check_terminate") =>
            /\ pc' = "extract"
            /\ IF Marked(reply)
               THEN reply' = reply /\ runs' = runs /\ task' = task
               ELSE runs' = runs + 1 /\ task' = "reminder"]_vars
    /\ [][(InPhase /\ pc = "extract") =>
            LET m == JSON_PATTERN_search(reply)
                v == IF reply # <<>> /\ m.found /\ json_loads(m.group0).ok
                     THEN json_loads(m.group0).val ELSE None
            IN  data' = IF v.kind = "dict" /\ DOMAIN v.members # {} THEN v
                        ELSE Dict(EmptyMap)]_vars
    /\ [](prog = "chat" => runs <= 2)
    /\ []((InPhase /\ runs = 2) => task = "reminder")
    /\ [](Engaged =>
            /\ runs = 1
            /\ Marked(note)
            /\ note = IF Marked(reply) THEN reply ELSE reply \o <<"\n", "TERMINATE">>
            /\ (~Marked(reply) \/ MarkedUpper(reply)) => MarkedUpper(note))

\* the engagement agent wrote the marker in lower case and nothing was appended
C13_Witness ==
    /\ Engaged
    /\ reply = <<"hello", " ", "terminate">>
    /\ note = reply /\ ~MarkedUpper(note)

\* a phase returned from the reply of its reminder run, which lacks the marker
C13_WitnessUnmarked ==
    /\ InPhase /\ pc = "returned"
    /\ runs = 2 /\ ~Marked(reply)

---------------------------------------------------------------------------
(* The two extraction paths side by side *)

\* the fallback check of run_workflow has been made on the text extract_json
\* was given
Checked == prog = "extract" /\ pc \in {"fallback", "accepted"}
\* the fence-stripped text as a whole is a JSON document that is no mapping
WholeIsOther == WholeIsJson /\ ~IsDict(json_loads(_strip_fences(raw)).val)

\* C14 as stated: extract_json returns a mapping M exactly when the parse step
\* of run_workflow accepts the same M without the direct tool call.
C14_PathsAgree ==
    Checked =>
        /\ IsDict(data) <=> pc = "accepted"
        /\ pc = "accepted" => data_json = data

\* C14 amended: what run_workflow accepts is a non-empty mapping and extract_json
\* returns that same mapping; a mapping extract_json returns is accepted by
\* run_workflow unless it is empty, or the fence-stripped text as a whole is a
\* JSON document that is no mapping (the object inside a list).
C14_AgreeOnNonEmpty ==
    Checked =>
        /\ pc = "accepted" =>
               (IsDict(data_json) /\ DOMAIN data_json.members # {} /\ data = data_json)
        /\ (pc = "fallback" /\ IsDict(data)) =>
               (DOMAIN data.members = {} \/ WholeIsOther)
        /\ (IsDict(data) /\ DOMAIN data.members # {} /\ ~WholeIsOther) =>
               (pc = "accepted" /\ data_json = data)

\* a fenced reply with prose: both paths give the object
C14_Witness ==
    /\ Checked /\ pc = "accepted"
    /\ raw[1] = Fence /\ parts.pre # <<>>
    /\ data = data_json /\ data = Embedded

\* the object inside a list: extract_json gives it, run_workflow falls back
C14_WitnessWrapped ==
    /\ Checked /\ pc = "fallback"
    /\ IsDict(data) /\ DOMAIN data.members # {}
    /\ data_json.kind = "list" /\ data_json.items = <<data>>

\* the empty object: extract_json gives {}, run_workflow falls back
C14_WitnessEmpty ==
    /\ Checked /\ pc = "fallback"
    /\ data = Dict(EmptyMap) /\ data_json = Dict(EmptyMap)

====
